---------------------------- MODULE Spec2Model ----------------------------
(***************************************************************************)
(* Model of calendar/day-summary/day-summary.py: the agenda aggregator     *)
(* that fetches iCal feeds, keeps the items of one target date, and prints *)
(* a report grouped by calendar.                                           *)
(*                                                                         *)
(* Representation.  A Python str is a sequence of Unicode code points      *)
(* ("No Title" is <<78, 111, 32, 84, ...>>), so that strip(), len(), the   *)
(* string order used by sorted() and the "\n" handling of print() are      *)
(* computed and not assumed.  Python's None is the sequence <<-1>>, which  *)
(* is no string.  A dict is a function whose DOMAIN is its set of keys.    *)
(* A date is [year, month, day]; an Arrow instant is a wall-clock date     *)
(* and minute of the day together with the UTC offset of its own zone.    *)
(***************************************************************************)
EXTENDS Integers, Sequences, FiniteSets, TLC

VARIABLES
    pc,                \* position of main(): which statement group runs next
    args,              \* argparse result: [config |-> path, date |-> str or None]
    config,            \* the dict load_config returned
    tz,                \* the resolved timezone
    target_date,       \* the date the report is for
    header,            \* the string format_header returned
    calendars,         \* config.get('calendars', [])
    idx,               \* number of entries of calendars the for loop has consumed
    name,              \* locals of the loop body, as last assigned
    url,
    show_description,
    show_location,
    ics_content,
    timed_events,
    all_day_tasks,
    output_lines,      \* the list of strings main() prints at the end
    stdout,            \* lines the final print loop wrote, one element per line
    diagnostics,       \* kind of each diagnostic printed so far.  print() writes
                       \* them to the same stream, ahead of the report; they are
                       \* kept apart because their text quotes exception messages
    exit_code,         \* -1 while running, then the process exit status
    visited,           \* one record per finished iteration of the for loop
    env                \* the host: the configuration file, the local zone, the clock

vars == <<pc, args, config, tz, target_date, header, calendars, idx, name, url,
          show_description, show_location, ics_content, timed_events,
          all_day_tasks, output_lines, stdout, diagnostics, exit_code, visited, env>>

---------------------------------------------------------------------------
(* Bounds of the model. *)

MaxCalendars == 2      \* longest 'calendars' list of a configuration
MaxEvents == 3         \* most VEVENTs in one feed

---------------------------------------------------------------------------
(* Python values. *)

None == << -1 >>

\* a Python int where a str is expected (YAML reads "name: 2024" as an int)
IntValue(n) == << -2, n >>

IsInt(x) == Len(x) = 2 /\ x[1] = -2

\* the items of a list or dict, each followed by the mark -4
RECURSIVE Terminated(_)
Terminated(items) ==
    IF items = << >> THEN << >>
    ELSE Head(items) \o << -4 >> \o Terminated(Tail(items))

\* a Python list of str ("name: [a, b]")
ListValue(items) == << -3 >> \o Terminated(items)

\* a Python dict of str to str ("name: {a: b}"), as key, value, key, value
DictValue(pairs) == << -5 >> \o Terminated(pairs)

IsList(x) == x # << >> /\ x[1] = -3

IsDict(x) == x # << >> /\ x[1] = -5

\* the strs held by a list or dict value
RECURSIVE Elements(_, _)
Elements(s, cur) ==
    IF s = << >> THEN << >>
    ELSE IF Head(s) = -4 THEN <<cur>> \o Elements(Tail(s), << >>)
    ELSE Elements(Tail(s), Append(cur, Head(s)))

\* len(x) for a str, a list or a dict
PyLen(x) ==
    IF IsList(x) THEN Len(Elements(Tail(x), << >>))
    ELSE IF IsDict(x) THEN Len(Elements(Tail(x), << >>)) \div 2
    ELSE Len(x)

\* bool(x) for x a str, an int, a list, a dict or None
Truthy(x) ==
    IF IsInt(x) THEN x[2] # 0
    ELSE IF IsList(x) \/ IsDict(x) THEN PyLen(x) # 0
    ELSE x # None /\ x # << >>

\* sub in s, for two strs
Contains(s, sub) ==
    \E i \in 1..(Len(s) - Len(sub) + 1) : SubSeq(s, i, i + Len(sub) - 1) = sub

\* str.isspace() for one character (the whitespace str.strip() removes)
IsSpace(c) ==
    c \in {9, 10, 11, 12, 13, 28, 29, 30, 31, 32, 133, 160, 5760}
           \cup (8192..8202) \cup {8232, 8233, 8239, 8287, 12288}

RECURSIVE lstrip(_)
lstrip(s) == IF s # << >> /\ IsSpace(Head(s)) THEN lstrip(Tail(s)) ELSE s

RECURSIVE rstrip(_)
rstrip(s) ==
    IF s # << >> /\ IsSpace(s[Len(s)]) THEN rstrip(SubSeq(s, 1, Len(s) - 1)) ELSE s

\* str.strip()
strip(s) == rstrip(lstrip(s))

\* a < b for two str: lexicographic by code point
RECURSIVE StrLess(_, _)
StrLess(a, b) ==
    IF b = << >> THEN FALSE
    ELSE IF a = << >> THEN TRUE
    ELSE IF Head(a) # Head(b) THEN Head(a) < Head(b)
    ELSE StrLess(Tail(a), Tail(b))

\* c * n for a one-character str c
RECURSIVE Repeat(_, _)
Repeat(c, n) == IF n <= 0 THEN << >> ELSE <<c>> \o Repeat(c, n - 1)

\* "\n".join(lines)
RECURSIVE JoinLines(_)
JoinLines(lines) ==
    IF lines = << >> THEN << >>
    ELSE IF Len(lines) = 1 THEN lines[1]
    ELSE lines[1] \o <<10>> \o JoinLines(Tail(lines))

\* s.split("\n"): the lines a terminal shows for the text s
RECURSIVE SplitLines(_, _)
SplitLines(s, cur) ==
    IF s = << >> THEN <<cur>>
    ELSE IF Head(s) = 10 THEN <<cur>> \o SplitLines(Tail(s), << >>)
    ELSE SplitLines(Tail(s), Append(cur, Head(s)))

\* the decimal digits of n, zero padded to width w (the %02d of strftime)
RECURSIVE Digits(_, _)
Digits(n, w) ==
    IF w = 0 THEN << >> ELSE Digits(n \div 10, w - 1) \o <<48 + (n % 10)>>

\* the code point of the digit zero of every run of Unicode decimal digits
DigitZeros ==
    {
      48, 1632, 1776, 1984, 2406, 2534, 2662, 2790, 2918,
      3046, 3174, 3302, 3430, 3558, 3664, 3792, 3872, 4160,
      4240, 6112, 6160, 6470, 6608, 6784, 6800, 6992, 7088,
      7232, 7248, 42528, 43216, 43264, 43472, 43504, 43600, 44016,
      65296, 66720, 68912, 69734, 69872, 69942, 70096, 70384, 70736,
      70864, 71248, 71360, 71472, 71904, 72016, 72784, 73040, 73120,
      92768, 92864, 93008, 120782, 120792, 120802, 120812, 120822, 123200,
      123632, 125264, 130032 }

\* the regular expression \d on a str: any Unicode decimal digit
IsDigit(c) == \E z \in DigitZeros : c \in z..(z + 9)

\* the value int() gives one decimal digit
DigitValue(c) == c - (CHOOSE z \in DigitZeros : c \in z..(z + 9))

RECURSIVE DigitsValue(_)
DigitsValue(s) ==
    IF s = << >> THEN 0
    ELSE DigitsValue(SubSeq(s, 1, Len(s) - 1)) * 10 + DigitValue(s[Len(s)])

\* int(s) for s made of decimal digits and surrounding whitespace
ToInt(s) == DigitsValue(strip(s))

\* str(n) for n >= 0: the decimal digits without padding
RECURSIVE Decimal(_)
Decimal(n) == IF n < 10 THEN <<48 + n>> ELSE Decimal(n \div 10) \o <<48 + (n % 10)>>

---------------------------------------------------------------------------
(* datetime.date and the calendar. *)

IsLeap(y) == (y % 4 = 0 /\ y % 100 # 0) \/ y % 400 = 0

DaysInMonth(y, m) ==
    IF m = 2 THEN (IF IsLeap(y) THEN 29 ELSE 28)
    ELSE IF m \in {4, 6, 9, 11} THEN 30 ELSE 31

Date(y, m, d) == [year |-> y, month |-> m, day |-> d]

NextDay(d) ==
    IF d.day < DaysInMonth(d.year, d.month) THEN Date(d.year, d.month, d.day + 1)
    ELSE IF d.month < 12 THEN Date(d.year, d.month + 1, 1)
    ELSE Date(d.year + 1, 1, 1)

PrevDay(d) ==
    IF d.day > 1 THEN Date(d.year, d.month, d.day - 1)
    ELSE IF d.month > 1 THEN Date(d.year, d.month - 1, DaysInMonth(d.year, d.month - 1))
    ELSE Date(d.year - 1, 12, 31)

\* the wall clock 'minute' minutes after midnight of 'date', carried into range
RECURSIVE Normalize(_, _)
Normalize(date, minute) ==
    IF minute < 0 THEN Normalize(PrevDay(date), minute + 1440)
    ELSE IF minute >= 1440 THEN Normalize(NextDay(date), minute - 1440)
    ELSE [date |-> date, minute |-> minute]

\* An Arrow / datetime instant: wall clock in its own zone plus that zone's offset.
Instant(date, minute, utcoffset) ==
    [date |-> date, minute |-> minute, utcoffset |-> utcoffset]

\* Arrow.to(tz) and datetime.now(tz): the same instant on tz's wall clock
To(t, zone) ==
    LET n == Normalize(t.date, t.minute - t.utcoffset + zone.utcoffset)
    IN  Instant(n.date, n.minute, zone.utcoffset)

\* strftime('%H:%M')
StrfHM(t) == Digits(t.minute \div 60, 2) \o <<58>> \o Digits(t.minute % 60, 2)

MonthName ==
    << <<74, 97, 110, 117, 97, 114, 121>>,               \* January
       <<70, 101, 98, 114, 117, 97, 114, 121>>,          \* February
       <<77, 97, 114, 99, 104>>,                         \* March
       <<65, 112, 114, 105, 108>>,                       \* April
       <<77, 97, 121>>,                                  \* May
       <<74, 117, 110, 101>>,                            \* June
       <<74, 117, 108, 121>>,                            \* July
       <<65, 117, 103, 117, 115, 116>>,                  \* August
       <<83, 101, 112, 116, 101, 109, 98, 101, 114>>,    \* September
       <<79, 99, 116, 111, 98, 101, 114>>,               \* October
       <<78, 111, 118, 101, 109, 98, 101, 114>>,         \* November
       <<68, 101, 99, 101, 109, 98, 101, 114>> >>        \* December

\* date.strftime('%B %d, %Y'); the C library's %Y does not pad the year
StrfBdY(d) ==
    MonthName[d.month] \o <<32>> \o Digits(d.day, 2) \o <<44, 32>> \o Decimal(d.year)

\* The three '-'-separated fields of s, or << >> when s has not exactly three.
Fields(s) ==
    LET dash == {i \in 1..Len(s) : s[i] = 45}
    IN  IF Cardinality(dash) # 2 THEN << >>
        ELSE LET i == CHOOSE k \in dash : \A l \in dash : k <= l
                 j == CHOOSE k \in dash : \A l \in dash : l <= k
             IN  <<SubSeq(s, 1, i - 1), SubSeq(s, i + 1, j - 1), SubSeq(s, j + 1, Len(s))>>

AllDigits(s) == \A i \in 1..Len(s) : IsDigit(s[i])

\* the field matches (?P<Y>\d\d\d\d)
YearField(f) == Len(f) = 4 /\ AllDigits(f)

\* the field matches (?P<m>1[0-2]|0[1-9]|[1-9])
MonthField(f) ==
    \/ Len(f) = 2 /\ f[1] = 49 /\ f[2] \in 48..50
    \/ Len(f) = 2 /\ f[1] = 48 /\ f[2] \in 49..57
    \/ Len(f) = 1 /\ f[1] \in 49..57

\* the field matches (?P<d>3[0-1]|[1-2]\d|0[1-9]|[1-9]| [1-9])
DayField(f) ==
    \/ Len(f) = 2 /\ f[1] = 51 /\ f[2] \in 48..49
    \/ Len(f) = 2 /\ f[1] \in 49..50 /\ IsDigit(f[2])
    \/ Len(f) = 2 /\ f[1] = 48 /\ f[2] \in 49..57
    \/ Len(f) = 1 /\ f[1] \in 49..57
    \/ Len(f) = 2 /\ f[1] = 32 /\ f[2] \in 49..57

\* datetime.strptime(s, '%Y-%m-%d') raises ValueError: s does not match the
\* pattern as a whole, or the fields are no date
StrptimeFails(s) ==
    LET f == Fields(s)
    IN  \/ f = << >>
        \/ ~YearField(f[1])
        \/ ~MonthField(f[2])
        \/ ~DayField(f[3])
        \/ ToInt(f[1]) < 1
        \/ ToInt(f[3]) > DaysInMonth(ToInt(f[1]), ToInt(f[2]))

\* datetime.strptime(s, '%Y-%m-%d').date()
Strptime(s) ==
    LET f == Fields(s) IN Date(ToInt(f[1]), ToInt(f[2]), ToInt(f[3]))

---------------------------------------------------------------------------
(* Timezones.  Every zone of the table has a fixed offset all year, so the  *)
(* conversion is an addition of minutes.                                    *)

UTC == [key |-> "UTC", name |-> <<85, 84, 67>>, utcoffset |-> 0]

ZoneTable ==
    { UTC,
      [key |-> "Asia/Tokyo", utcoffset |-> 540,
       name |-> <<65, 115, 105, 97, 47, 84, 111, 107, 121, 111>>],
      [key |-> "America/Phoenix", utcoffset |-> -420,
       name |-> <<65, 109, 101, 114, 105, 99, 97, 47, 80, 104, 111, 101, 110, 105, 120>>] }

\* ZoneInfo(k) raises (ZoneInfoNotFoundError, ValueError; TypeError when k is
\* no str)
ZoneInfoFails(k) == \A z \in ZoneTable : z.name # k

\* ZoneInfo(k)
ZoneInfo(k) == CHOOSE z \in ZoneTable : z.name = k

\* str(local_tz) for the zone get_localzone() returns
LocalZoneName(key) == (CHOOSE z \in ZoneTable : z.key = key).name

---------------------------------------------------------------------------
(* parse_events, format_event, format_header and the body of the loop.      *)

EMPTY_CHECKBOX == <<9744>>

NoTitle == <<78, 111, 32, 84, 105, 116, 108, 101>>    \* "No Title"

\* x.strip() if x and x.strip() else None
OptionalText(x) == IF Truthy(x) /\ Truthy(strip(x)) THEN strip(x) ELSE None

\* event.name.strip() if event.name else "No Title"
EventName(event) == IF Truthy(event.name) THEN strip(event.name) ELSE NoTitle

\* the dict appended to all_day_tasks
AllDayRecord(event) ==
    [name |-> EventName(event),
     description |-> OptionalText(event.description),
     location |-> OptionalText(event.location)]

\* the dict appended to timed_events
TimedRecord(event, zone) ==
    [time |-> StrfHM(To(event.begin, zone)),
     name |-> EventName(event),
     description |-> OptionalText(event.description),
     location |-> OptionalText(event.location)]

\* the begin of a VEVENT without DTSTART: None
NoBegin == [None |-> TRUE]

\* event.begin.date() raises AttributeError
BeginRaises(event) == DOMAIN event.begin = {"None"}

\* the test of line 50: the event is on the target date
OnTargetDate(event, date, zone) == event.begin.date = date

\* the for loop of parse_events over cal.events; raised: line 50 raised at an
\* event, outside the try, and the lists never reach the caller
RECURSIVE ScanEvents(_, _, _)
ScanEvents(events, date, zone) ==
    IF events = << >> THEN [timed |-> << >>, all_day |-> << >>, raised |-> FALSE]
    ELSE LET rest  == ScanEvents(SubSeq(events, 1, Len(events) - 1), date, zone)
             event == events[Len(events)]
         IN  IF rest.raised THEN rest
             ELSE IF BeginRaises(event) THEN [rest EXCEPT !.raised = TRUE]
             ELSE IF ~OnTargetDate(event, date, zone) THEN rest
             ELSE IF event.all_day
                  THEN [rest EXCEPT !.all_day = Append(@, AllDayRecord(event))]
                  ELSE [rest EXCEPT !.timed = Append(@, TimedRecord(event, zone))]

\* parse_events(ics_content, target_date, tz): Calendar() raising gives [], []
parse_events(content, date, zone) ==
    IF ~content.wellformed
    THEN [timed |-> << >>, all_day |-> << >>, raised |-> FALSE]
    ELSE ScanEvents(content.events, date, zone)

\* format_event with the show_description test dropped
format_eventAnyDescription(event, show_desc, show_loc) ==
    LET first_line ==
            IF "time" \in DOMAIN event
            THEN <<32, 32>> \o EMPTY_CHECKBOX \o <<32>> \o event.time
                 \o <<32, 45, 32>> \o event.name
            ELSE <<32, 32>> \o EMPTY_CHECKBOX \o <<32>> \o event.name
        desc ==
            IF Truthy(event.description)
            THEN << <<32, 32, 32, 32, 68, 101, 115, 99, 114, 105, 112, 116, 105, 111,
                      110, 58, 32>> \o event.description >>
            ELSE << >>
        loc ==
            IF show_loc /\ Truthy(event.location)
            THEN << <<32, 32, 32, 32, 76, 111, 99, 97, 116, 105, 111, 110, 58, 32>>
                    \o event.location >>
            ELSE << >>
    IN  JoinLines(<<first_line>> \o desc \o loc)

\* format_event(event, show_description, show_location)
format_event(event, show_desc, show_loc) ==
    LET first_line ==
            IF "time" \in DOMAIN event
            THEN <<32, 32>> \o EMPTY_CHECKBOX \o <<32>> \o event.time
                 \o <<32, 45, 32>> \o event.name
            ELSE <<32, 32>> \o EMPTY_CHECKBOX \o <<32>> \o event.name
        desc ==
            IF show_desc /\ Truthy(event.description)
            THEN << <<32, 32, 32, 32, 68, 101, 115, 99, 114, 105, 112, 116, 105, 111,
                      110, 58, 32>> \o event.description >>
            ELSE << >>
        loc ==
            IF show_loc /\ Truthy(event.location)
            THEN << <<32, 32, 32, 32, 76, 111, 99, 97, 116, 105, 111, 110, 58, 32>>
                    \o event.location >>
            ELSE << >>
    IN  JoinLines(<<first_line>> \o desc \o loc)

\* format_header(target_date)
format_header(date) ==
    LET header_title == <<65, 103, 101, 110, 100, 97, 32, 102, 111, 114, 32>>
                        \o StrfBdY(date)
        header_underline == Repeat(61, Len(header_title))
    IN  header_title \o <<10>> \o header_underline \o <<10>>

\* sorted() left out: the items in feed order
sortedFeedOrder(items, key) == items

\* sorted(items, key=lambda x: x[key]): stable, ascending by str order
RECURSIVE sorted(_, _)
sorted(items, key) ==
    IF items = << >> THEN << >>
    ELSE LET front == sorted(SubSeq(items, 1, Len(items) - 1), key)
             x     == items[Len(items)]
             after == {i \in 1..Len(front) : StrLess(x[key], front[i][key])}
             at    == IF after = {} THEN Len(front) + 1
                      ELSE CHOOSE i \in after : \A j \in after : i <= j
         IN  SubSeq(front, 1, at - 1) \o <<x>> \o SubSeq(front, at, Len(front))

RenderAll(items, show_desc, show_loc) ==
    [i \in 1..Len(items) |-> format_event(items[i], show_desc, show_loc)]

\* the emptiness test left out
has_eventsAlways(timed, all_day) == TRUE

\* bool(timed_events) or bool(all_day_tasks)
has_events(timed, all_day) == timed # << >> \/ all_day # << >>

\* the runs lo..hi of code points from 128 on that str.isprintable() rejects
\* (Unicode 14.0: control, format, surrogate, private use, unassigned and
\* separator characters)
NonPrintableRuns ==
    {
      <<128, 160>>, <<173, 173>>, <<888, 889>>, <<896, 899>>, <<907, 907>>,
      <<909, 909>>, <<930, 930>>, <<1328, 1328>>, <<1367, 1368>>, <<1419, 1420>>,
      <<1424, 1424>>, <<1480, 1487>>, <<1515, 1518>>, <<1525, 1541>>, <<1564, 1564>>,
      <<1757, 1757>>, <<1806, 1807>>, <<1867, 1868>>, <<1970, 1983>>, <<2043, 2044>>,
      <<2094, 2095>>, <<2111, 2111>>, <<2140, 2141>>, <<2143, 2143>>, <<2155, 2159>>,
      <<2191, 2199>>, <<2274, 2274>>, <<2436, 2436>>, <<2445, 2446>>, <<2449, 2450>>,
      <<2473, 2473>>, <<2481, 2481>>, <<2483, 2485>>, <<2490, 2491>>, <<2501, 2502>>,
      <<2505, 2506>>, <<2511, 2518>>, <<2520, 2523>>, <<2526, 2526>>, <<2532, 2533>>,
      <<2559, 2560>>, <<2564, 2564>>, <<2571, 2574>>, <<2577, 2578>>, <<2601, 2601>>,
      <<2609, 2609>>, <<2612, 2612>>, <<2615, 2615>>, <<2618, 2619>>, <<2621, 2621>>,
      <<2627, 2630>>, <<2633, 2634>>, <<2638, 2640>>, <<2642, 2648>>, <<2653, 2653>>,
      <<2655, 2661>>, <<2679, 2688>>, <<2692, 2692>>, <<2702, 2702>>, <<2706, 2706>>,
      <<2729, 2729>>, <<2737, 2737>>, <<2740, 2740>>, <<2746, 2747>>, <<2758, 2758>>,
      <<2762, 2762>>, <<2766, 2767>>, <<2769, 2783>>, <<2788, 2789>>, <<2802, 2808>>,
      <<2816, 2816>>, <<2820, 2820>>, <<2829, 2830>>, <<2833, 2834>>, <<2857, 2857>>,
      <<2865, 2865>>, <<2868, 2868>>, <<2874, 2875>>, <<2885, 2886>>, <<2889, 2890>>,
      <<2894, 2900>>, <<2904, 2907>>, <<2910, 2910>>, <<2916, 2917>>, <<2936, 2945>>,
      <<2948, 2948>>, <<2955, 2957>>, <<2961, 2961>>, <<2966, 2968>>, <<2971, 2971>>,
      <<2973, 2973>>, <<2976, 2978>>, <<2981, 2983>>, <<2987, 2989>>, <<3002, 3005>>,
      <<3011, 3013>>, <<3017, 3017>>, <<3022, 3023>>, <<3025, 3030>>, <<3032, 3045>>,
      <<3067, 3071>>, <<3085, 3085>>, <<3089, 3089>>, <<3113, 3113>>, <<3130, 3131>>,
      <<3141, 3141>>, <<3145, 3145>>, <<3150, 3156>>, <<3159, 3159>>, <<3163, 3164>>,
      <<3166, 3167>>, <<3172, 3173>>, <<3184, 3190>>, <<3213, 3213>>, <<3217, 3217>>,
      <<3241, 3241>>, <<3252, 3252>>, <<3258, 3259>>, <<3269, 3269>>, <<3273, 3273>>,
      <<3278, 3284>>, <<3287, 3292>>, <<3295, 3295>>, <<3300, 3301>>, <<3312, 3312>>,
      <<3315, 3327>>, <<3341, 3341>>, <<3345, 3345>>, <<3397, 3397>>, <<3401, 3401>>,
      <<3408, 3411>>, <<3428, 3429>>, <<3456, 3456>>, <<3460, 3460>>, <<3479, 3481>>,
      <<3506, 3506>>, <<3516, 3516>>, <<3518, 3519>>, <<3527, 3529>>, <<3531, 3534>>,
      <<3541, 3541>>, <<3543, 3543>>, <<3552, 3557>>, <<3568, 3569>>, <<3573, 3584>>,
      <<3643, 3646>>, <<3676, 3712>>, <<3715, 3715>>, <<3717, 3717>>, <<3723, 3723>>,
      <<3748, 3748>>, <<3750, 3750>>, <<3774, 3775>>, <<3781, 3781>>, <<3783, 3783>>,
      <<3790, 3791>>, <<3802, 3803>>, <<3808, 3839>>, <<3912, 3912>>, <<3949, 3952>>,
      <<3992, 3992>>, <<4029, 4029>>, <<4045, 4045>>, <<4059, 4095>>, <<4294, 4294>>,
      <<4296, 4300>>, <<4302, 4303>>, <<4681, 4681>>, <<4686, 4687>>, <<4695, 4695>>,
      <<4697, 4697>>, <<4702, 4703>>, <<4745, 4745>>, <<4750, 4751>>, <<4785, 4785>>,
      <<4790, 4791>>, <<4799, 4799>>, <<4801, 4801>>, <<4806, 4807>>, <<4823, 4823>>,
      <<4881, 4881>>, <<4886, 4887>>, <<4955, 4956>>, <<4989, 4991>>, <<5018, 5023>>,
      <<5110, 5111>>, <<5118, 5119>>, <<5760, 5760>>, <<5789, 5791>>, <<5881, 5887>>,
      <<5910, 5918>>, <<5943, 5951>>, <<5972, 5983>>, <<5997, 5997>>, <<6001, 6001>>,
      <<6004, 6015>>, <<6110, 6111>>, <<6122, 6127>>, <<6138, 6143>>, <<6158, 6158>>,
      <<6170, 6175>>, <<6265, 6271>>, <<6315, 6319>>, <<6390, 6399>>, <<6431, 6431>>,
      <<6444, 6447>>, <<6460, 6463>>, <<6465, 6467>>, <<6510, 6511>>, <<6517, 6527>>,
      <<6572, 6575>>, <<6602, 6607>>, <<6619, 6621>>, <<6684, 6685>>, <<6751, 6751>>,
      <<6781, 6782>>, <<6794, 6799>>, <<6810, 6815>>, <<6830, 6831>>, <<6863, 6911>>,
      <<6989, 6991>>, <<7039, 7039>>, <<7156, 7163>>, <<7224, 7226>>, <<7242, 7244>>,
      <<7305, 7311>>, <<7355, 7356>>, <<7368, 7375>>, <<7419, 7423>>, <<7958, 7959>>,
      <<7966, 7967>>, <<8006, 8007>>, <<8014, 8015>>, <<8024, 8024>>, <<8026, 8026>>,
      <<8028, 8028>>, <<8030, 8030>>, <<8062, 8063>>, <<8117, 8117>>, <<8133, 8133>>,
      <<8148, 8149>>, <<8156, 8156>>, <<8176, 8177>>, <<8181, 8181>>, <<8191, 8207>>,
      <<8232, 8239>>, <<8287, 8303>>, <<8306, 8307>>, <<8335, 8335>>, <<8349, 8351>>,
      <<8385, 8399>>, <<8433, 8447>>, <<8588, 8591>>, <<9255, 9279>>, <<9291, 9311>>,
      <<11124, 11125>>, <<11158, 11158>>, <<11508, 11512>>, <<11558, 11558>>, <<11560, 11564>>,
      <<11566, 11567>>, <<11624, 11630>>, <<11633, 11646>>, <<11671, 11679>>, <<11687, 11687>>,
      <<11695, 11695>>, <<11703, 11703>>, <<11711, 11711>>, <<11719, 11719>>, <<11727, 11727>>,
      <<11735, 11735>>, <<11743, 11743>>, <<11870, 11903>>, <<11930, 11930>>, <<12020, 12031>>,
      <<12246, 12271>>, <<12284, 12288>>, <<12352, 12352>>, <<12439, 12440>>, <<12544, 12548>>,
      <<12592, 12592>>, <<12687, 12687>>, <<12772, 12783>>, <<12831, 12831>>, <<42125, 42127>>,
      <<42183, 42191>>, <<42540, 42559>>, <<42744, 42751>>, <<42955, 42959>>, <<42962, 42962>>,
      <<42964, 42964>>, <<42970, 42993>>, <<43053, 43055>>, <<43066, 43071>>, <<43128, 43135>>,
      <<43206, 43213>>, <<43226, 43231>>, <<43348, 43358>>, <<43389, 43391>>, <<43470, 43470>>,
      <<43482, 43485>>, <<43519, 43519>>, <<43575, 43583>>, <<43598, 43599>>, <<43610, 43611>>,
      <<43715, 43738>>, <<43767, 43776>>, <<43783, 43784>>, <<43791, 43792>>, <<43799, 43807>>,
      <<43815, 43815>>, <<43823, 43823>>, <<43884, 43887>>, <<44014, 44015>>, <<44026, 44031>>,
      <<55204, 55215>>, <<55239, 55242>>, <<55292, 63743>>, <<64110, 64111>>, <<64218, 64255>>,
      <<64263, 64274>>, <<64280, 64284>>, <<64311, 64311>>, <<64317, 64317>>, <<64319, 64319>>,
      <<64322, 64322>>, <<64325, 64325>>, <<64451, 64466>>, <<64912, 64913>>, <<64968, 64974>>,
      <<64976, 65007>>, <<65050, 65055>>, <<65107, 65107>>, <<65127, 65127>>, <<65132, 65135>>,
      <<65141, 65141>>, <<65277, 65280>>, <<65471, 65473>>, <<65480, 65481>>, <<65488, 65489>>,
      <<65496, 65497>>, <<65501, 65503>>, <<65511, 65511>>, <<65519, 65531>>, <<65534, 65535>>,
      <<65548, 65548>>, <<65575, 65575>>, <<65595, 65595>>, <<65598, 65598>>, <<65614, 65615>>,
      <<65630, 65663>>, <<65787, 65791>>, <<65795, 65798>>, <<65844, 65846>>, <<65935, 65935>>,
      <<65949, 65951>>, <<65953, 65999>>, <<66046, 66175>>, <<66205, 66207>>, <<66257, 66271>>,
      <<66300, 66303>>, <<66340, 66348>>, <<66379, 66383>>, <<66427, 66431>>, <<66462, 66462>>,
      <<66500, 66503>>, <<66518, 66559>>, <<66718, 66719>>, <<66730, 66735>>, <<66772, 66775>>,
      <<66812, 66815>>, <<66856, 66863>>, <<66916, 66926>>, <<66939, 66939>>, <<66955, 66955>>,
      <<66963, 66963>>, <<66966, 66966>>, <<66978, 66978>>, <<66994, 66994>>, <<67002, 67002>>,
      <<67005, 67071>>, <<67383, 67391>>, <<67414, 67423>>, <<67432, 67455>>, <<67462, 67462>>,
      <<67505, 67505>>, <<67515, 67583>>, <<67590, 67591>>, <<67593, 67593>>, <<67638, 67638>>,
      <<67641, 67643>>, <<67645, 67646>>, <<67670, 67670>>, <<67743, 67750>>, <<67760, 67807>>,
      <<67827, 67827>>, <<67830, 67834>>, <<67868, 67870>>, <<67898, 67902>>, <<67904, 67967>>,
      <<68024, 68027>>, <<68048, 68049>>, <<68100, 68100>>, <<68103, 68107>>, <<68116, 68116>>,
      <<68120, 68120>>, <<68150, 68151>>, <<68155, 68158>>, <<68169, 68175>>, <<68185, 68191>>,
      <<68256, 68287>>, <<68327, 68330>>, <<68343, 68351>>, <<68406, 68408>>, <<68438, 68439>>,
      <<68467, 68471>>, <<68498, 68504>>, <<68509, 68520>>, <<68528, 68607>>, <<68681, 68735>>,
      <<68787, 68799>>, <<68851, 68857>>, <<68904, 68911>>, <<68922, 69215>>, <<69247, 69247>>,
      <<69290, 69290>>, <<69294, 69295>>, <<69298, 69375>>, <<69416, 69423>>, <<69466, 69487>>,
      <<69514, 69551>>, <<69580, 69599>>, <<69623, 69631>>, <<69710, 69713>>, <<69750, 69758>>,
      <<69821, 69821>>, <<69827, 69839>>, <<69865, 69871>>, <<69882, 69887>>, <<69941, 69941>>,
      <<69960, 69967>>, <<70007, 70015>>, <<70112, 70112>>, <<70133, 70143>>, <<70162, 70162>>,
      <<70207, 70271>>, <<70279, 70279>>, <<70281, 70281>>, <<70286, 70286>>, <<70302, 70302>>,
      <<70314, 70319>>, <<70379, 70383>>, <<70394, 70399>>, <<70404, 70404>>, <<70413, 70414>>,
      <<70417, 70418>>, <<70441, 70441>>, <<70449, 70449>>, <<70452, 70452>>, <<70458, 70458>>,
      <<70469, 70470>>, <<70473, 70474>>, <<70478, 70479>>, <<70481, 70486>>, <<70488, 70492>>,
      <<70500, 70501>>, <<70509, 70511>>, <<70517, 70655>>, <<70748, 70748>>, <<70754, 70783>>,
      <<70856, 70863>>, <<70874, 71039>>, <<71094, 71095>>, <<71134, 71167>>, <<71237, 71247>>,
      <<71258, 71263>>, <<71277, 71295>>, <<71354, 71359>>, <<71370, 71423>>, <<71451, 71452>>,
      <<71468, 71471>>, <<71495, 71679>>, <<71740, 71839>>, <<71923, 71934>>, <<71943, 71944>>,
      <<71946, 71947>>, <<71956, 71956>>, <<71959, 71959>>, <<71990, 71990>>, <<71993, 71994>>,
      <<72007, 72015>>, <<72026, 72095>>, <<72104, 72105>>, <<72152, 72153>>, <<72165, 72191>>,
      <<72264, 72271>>, <<72355, 72367>>, <<72441, 72703>>, <<72713, 72713>>, <<72759, 72759>>,
      <<72774, 72783>>, <<72813, 72815>>, <<72848, 72849>>, <<72872, 72872>>, <<72887, 72959>>,
      <<72967, 72967>>, <<72970, 72970>>, <<73015, 73017>>, <<73019, 73019>>, <<73022, 73022>>,
      <<73032, 73039>>, <<73050, 73055>>, <<73062, 73062>>, <<73065, 73065>>, <<73103, 73103>>,
      <<73106, 73106>>, <<73113, 73119>>, <<73130, 73439>>, <<73465, 73647>>, <<73649, 73663>>,
      <<73714, 73726>>, <<74650, 74751>>, <<74863, 74863>>, <<74869, 74879>>, <<75076, 77711>>,
      <<77811, 77823>>, <<78895, 82943>>, <<83527, 92159>>, <<92729, 92735>>, <<92767, 92767>>,
      <<92778, 92781>>, <<92863, 92863>>, <<92874, 92879>>, <<92910, 92911>>, <<92918, 92927>>,
      <<92998, 93007>>, <<93018, 93018>>, <<93026, 93026>>, <<93048, 93052>>, <<93072, 93759>>,
      <<93851, 93951>>, <<94027, 94030>>, <<94088, 94094>>, <<94112, 94175>>, <<94181, 94191>>,
      <<94194, 94207>>, <<100344, 100351>>, <<101590, 101631>>, <<101641, 110575>>, <<110580, 110580>>,
      <<110588, 110588>>, <<110591, 110591>>, <<110883, 110927>>, <<110931, 110947>>, <<110952, 110959>>,
      <<111356, 113663>>, <<113771, 113775>>, <<113789, 113791>>, <<113801, 113807>>, <<113818, 113819>>,
      <<113824, 118527>>, <<118574, 118575>>, <<118599, 118607>>, <<118724, 118783>>, <<119030, 119039>>,
      <<119079, 119080>>, <<119155, 119162>>, <<119275, 119295>>, <<119366, 119519>>, <<119540, 119551>>,
      <<119639, 119647>>, <<119673, 119807>>, <<119893, 119893>>, <<119965, 119965>>, <<119968, 119969>>,
      <<119971, 119972>>, <<119975, 119976>>, <<119981, 119981>>, <<119994, 119994>>, <<119996, 119996>>,
      <<120004, 120004>>, <<120070, 120070>>, <<120075, 120076>>, <<120085, 120085>>, <<120093, 120093>>,
      <<120122, 120122>>, <<120127, 120127>>, <<120133, 120133>>, <<120135, 120137>>, <<120145, 120145>>,
      <<120486, 120487>>, <<120780, 120781>>, <<121484, 121498>>, <<121504, 121504>>, <<121520, 122623>>,
      <<122655, 122879>>, <<122887, 122887>>, <<122905, 122906>>, <<122914, 122914>>, <<122917, 122917>>,
      <<122923, 123135>>, <<123181, 123183>>, <<123198, 123199>>, <<123210, 123213>>, <<123216, 123535>>,
      <<123567, 123583>>, <<123642, 123646>>, <<123648, 124895>>, <<124903, 124903>>, <<124908, 124908>>,
      <<124911, 124911>>, <<124927, 124927>>, <<125125, 125126>>, <<125143, 125183>>, <<125260, 125263>>,
      <<125274, 125277>>, <<125280, 126064>>, <<126133, 126208>>, <<126270, 126463>>, <<126468, 126468>>,
      <<126496, 126496>>, <<126499, 126499>>, <<126501, 126502>>, <<126504, 126504>>, <<126515, 126515>>,
      <<126520, 126520>>, <<126522, 126522>>, <<126524, 126529>>, <<126531, 126534>>, <<126536, 126536>>,
      <<126538, 126538>>, <<126540, 126540>>, <<126544, 126544>>, <<126547, 126547>>, <<126549, 126550>>,
      <<126552, 126552>>, <<126554, 126554>>, <<126556, 126556>>, <<126558, 126558>>, <<126560, 126560>>,
      <<126563, 126563>>, <<126565, 126566>>, <<126571, 126571>>, <<126579, 126579>>, <<126584, 126584>>,
      <<126589, 126589>>, <<126591, 126591>>, <<126602, 126602>>, <<126620, 126624>>, <<126628, 126628>>,
      <<126634, 126634>>, <<126652, 126703>>, <<126706, 126975>>, <<127020, 127023>>, <<127124, 127135>>,
      <<127151, 127152>>, <<127168, 127168>>, <<127184, 127184>>, <<127222, 127231>>, <<127406, 127461>>,
      <<127491, 127503>>, <<127548, 127551>>, <<127561, 127567>>, <<127570, 127583>>, <<127590, 127743>>,
      <<128728, 128732>>, <<128749, 128751>>, <<128765, 128767>>, <<128884, 128895>>, <<128985, 128991>>,
      <<129004, 129007>>, <<129009, 129023>>, <<129036, 129039>>, <<129096, 129103>>, <<129114, 129119>>,
      <<129160, 129167>>, <<129198, 129199>>, <<129202, 129279>>, <<129620, 129631>>, <<129646, 129647>>,
      <<129653, 129655>>, <<129661, 129663>>, <<129671, 129679>>, <<129709, 129711>>, <<129723, 129727>>,
      <<129734, 129743>>, <<129754, 129759>>, <<129768, 129775>>, <<129783, 129791>>, <<129939, 129939>>,
      <<129995, 130031>>, <<130042, 131071>>, <<173792, 173823>>, <<177977, 177983>>, <<178206, 178207>>,
      <<183970, 183983>>, <<191457, 194559>>, <<195102, 196607>>, <<201547, 917759>>, <<918000, 1114111>> }

\* c is written as itself by repr
IsPrintable(c) ==
    IF c < 128 THEN c >= 32 /\ c # 127
    ELSE ~\E r \in NonPrintableRuns : c >= r[1] /\ c <= r[2]

\* n as w lower-case hexadecimal digits
RECURSIVE Hex(_, _)
Hex(n, w) ==
    IF w = 0 THEN << >>
    ELSE Hex(n \div 16, w - 1)
         \o <<IF n % 16 < 10 THEN 48 + (n % 16) ELSE 87 + (n % 16)>>

\* the quote repr(s) puts around s: " when s holds ' and no ", else '
ReprQuote(s) ==
    IF (\E i \in 1..Len(s) : s[i] = 39) /\ ~(\E i \in 1..Len(s) : s[i] = 34)
    THEN 34 ELSE 39

\* what repr writes for the character c between quotes q
ReprChar(c, q) ==
    IF c = q \/ c = 92 THEN <<92, c>>
    ELSE IF c = 9 THEN <<92, 116>>
    ELSE IF c = 10 THEN <<92, 110>>
    ELSE IF c = 13 THEN <<92, 114>>
    ELSE IF IsPrintable(c) THEN <<c>>
    ELSE IF c < 256 THEN <<92, 120>> \o Hex(c, 2)
    ELSE IF c < 65536 THEN <<92, 117>> \o Hex(c, 4)
    ELSE <<92, 85>> \o Hex(c, 8)

RECURSIVE ReprBody(_, _)
ReprBody(s, q) ==
    IF s = << >> THEN << >> ELSE ReprChar(Head(s), q) \o ReprBody(Tail(s), q)

\* repr(s) for a str
Quote(s) == <<ReprQuote(s)>> \o ReprBody(s, ReprQuote(s)) \o <<ReprQuote(s)>>

\* ", ".join(parts)
RECURSIVE JoinComma(_)
JoinComma(parts) ==
    IF parts = << >> THEN << >>
    ELSE IF Len(parts) = 1 THEN parts[1]
    ELSE parts[1] \o <<44, 32>> \o JoinComma(Tail(parts))

\* the texts "'key': 'value'" of a dict's items
RECURSIVE PairTexts(_)
PairTexts(es) ==
    IF es = << >> THEN << >>
    ELSE <<Quote(es[1]) \o <<58, 32>> \o Quote(es[2])>>
         \o PairTexts(SubSeq(es, 3, Len(es)))

\* f"{x}" for a str, an int, a list of str or a dict of str
Format(x) ==
    IF IsInt(x)
    THEN (IF x[2] < 0 THEN <<45>> \o Decimal(0 - x[2]) ELSE Decimal(x[2]))
    ELSE IF IsList(x)
    THEN LET es == Elements(Tail(x), << >>)
         IN  <<91>> \o JoinComma([i \in 1..Len(es) |-> Quote(es[i])]) \o <<93>>
    ELSE IF IsDict(x)
    THEN <<123>> \o JoinComma(PairTexts(Elements(Tail(x), << >>))) \o <<125>>
    ELSE x

\* f"{name}:"
NameLine(cal_name) == Format(cal_name) \o <<58>>

\* len(name) raises TypeError
LenRaises(cal_name) == IsInt(cal_name)

\* the block with the separator between the two categories left out
SourceBlockNoSeparator(cal_name, timed, all_day, show_desc, show_loc) ==
    <<NameLine(cal_name), Repeat(45, PyLen(cal_name))>>
    \o RenderAll(sorted(timed, "time"), show_desc, show_loc)
    \o RenderAll(sorted(all_day, "name"), show_desc, show_loc)
    \o << << >> >>

\* the strings lines 179-196 append for one calendar with content
SourceBlock(cal_name, timed, all_day, show_desc, show_loc) ==
    <<NameLine(cal_name), Repeat(45, PyLen(cal_name))>>
    \o RenderAll(sorted(timed, "time"), show_desc, show_loc)
    \o (IF all_day # << >> /\ timed # << >> THEN << << >> >> ELSE << >>)
    \o RenderAll(sorted(all_day, "name"), show_desc, show_loc)
    \o << << >> >>

\* dict.get(key, default)
Get(dict, key, default) == IF key \in DOMAIN dict THEN dict[key] ELSE default

\* the lines print(s) writes for each s of a list, in order
RECURSIVE PrintAll(_)
PrintAll(strings) ==
    IF strings = << >> THEN << >>
    ELSE SplitLines(Head(strings), << >>) \o PrintAll(Tail(strings))

\* f"No events or tasks found for {target_date.strftime('%B %d, %Y')}."
NoEventsLine(date) ==
    <<78, 111, 32, 101, 118, 101, 110, 116, 115, 32, 111, 114, 32, 116, 97, 115, 107,
      115, 32, 102, 111, 117, 110, 100, 32, 102, 111, 114, 32>> \o StrfBdY(date) \o <<46>>

---------------------------------------------------------------------------
(* The inputs: feeds, configurations, command lines, hosts.                 *)

SeqsUpTo(S, n) == UNION {[1..k -> S] : k \in 0..n}

D1 == Date(2024, 2, 29)
D2 == Date(2024, 3, 1)

\* One VEVENT as the ics library presents it.
Event(all_day, begin, summary, description, location) ==
    [all_day |-> all_day, begin |-> begin, name |-> summary,
     description |-> description, location |-> location]

EvStandup == Event(FALSE, Instant(D1, 540, 0), <<32, 83, 116, 97, 110, 100, 117, 112, 32>>,     \* 09:00Z " Standup "
                   <<8195, 110, 111, 116, 101, 115, 32>>, None)              \* EM SPACE "notes "
EvReview  == Event(FALSE, Instant(D1, 870, 0), <<82, 101, 118, 105, 101, 119>>,           \* 14:30Z "Review"
                   <<32, 32, 32>>, <<82, 111, 111, 109, 32, 49>>)
EvLate    == Event(FALSE, Instant(D1, 1410, 0), None, None, None)     \* 23:30Z, no SUMMARY
EvTokyo   == Event(FALSE, Instant(D2, 30, 540), <<32, 12288, 32>>,            \* 00:30+09:00, blank name
                   <<32, 110, 111, 116, 101, 115, 32>>, None)
TaskLower == Event(TRUE, Instant(D1, 0, 0), <<98>>, <<32, 110, 111, 116, 101, 115, 32>>, None)
TaskUpper == Event(TRUE, Instant(D1, 0, 0), <<66>>, <<32, 12288, 32>>,
                   <<82, 111, 111, 109, 32, 49>>)
TaskNext  == Event(TRUE, Instant(D2, 0, 0), << >>, None, None)

EvNoStart == Event(FALSE, NoBegin, <<88>>, None, None)      \* no DTSTART, "X"

EventPool == {EvStandup, EvReview, EvLate, EvTokyo, TaskLower, TaskUpper, TaskNext}

\* What fetch_ics returns: None, "" or the text of a feed.  The text of a feed
\* is represented by what Calendar() makes of it.
NoContent    == [text |-> "None", wellformed |-> FALSE, events |-> << >>]
EmptyContent == [text |-> "empty", wellformed |-> FALSE, events |-> << >>]
Malformed    == [text |-> "ics", wellformed |-> FALSE, events |-> << >>]
Feed(events) == [text |-> "ics", wellformed |-> TRUE, events |-> events]

Feeds ==
    {Feed(es) : es \in SeqsUpTo(EventPool, MaxEvents)}
    \cup {Feed(<<EvNoStart>>), Feed(<<TaskLower, EvNoStart, EvStandup>>)}

\* the responses the loop of main() meets
Responses ==
    { NoContent, EmptyContent, Malformed,
      Feed(<<EvReview, EvStandup>>), Feed(<<TaskLower>>),
      Feed(<<TaskUpper, EvStandup>>),
      Feed(<<EvLate, EvTokyo>>), Feed(<<TaskLower, EvNoStart>>) }

CalWork   == [name |-> <<87, 111, 114, 107>>, url |-> <<117>>,
              show_description |-> TRUE, show_location |-> TRUE]
CalMe     == [name |-> <<77, 101>>, url |-> <<117>>]
CalNoName == [url |-> <<117>>]
CalNoUrl  == [name |-> <<87, 111, 114, 107>>, url |-> << >>]

CalendarEntries == {CalWork, CalMe, CalNoName, CalNoUrl}

\* what yaml.safe_load returns for a document, or an item of a list, that is
\* one plain scalar such as the word "Work": a str, which has "in" but
\* neither keys nor get
StrValue(text) == [Scalar |-> text]

IsNotMapping(cfg) == DOMAIN cfg = {"Scalar"}

\* entries that are not a mapping with a str name: "- Work" and the names
\* 2024, -5, ["it's", b] and {a: "\u3000\\"}
CalStr  == StrValue(<<87, 111, 114, 107>>)
Cal2024 == [name |-> IntValue(2024), url |-> <<117>>]
CalNeg  == [name |-> IntValue(-5), url |-> <<117>>]
CalList == [name |-> ListValue(<< <<105, 116, 39, 115>>, <<98>> >>), url |-> <<117>>]
CalDict == [name |-> DictValue(<< <<97>>, <<12288, 92>> >>), url |-> <<117>>,
            show_description |-> TRUE]

IllTypedEntries == {CalStr, Cal2024, CalNeg, CalList, CalDict}

\* a value of 'calendars' that is no list: the int n ("calendars: 5") or
\* None ("calendars:").  It is kept as a tuple, like the lists it is compared
\* with, of one marker.
IntCalendars(n) == << [Int |-> n] >>

NoneCalendars == << [None |-> TRUE] >>

\* for cal in calendars raises TypeError
IsNotIterable(cals) == Len(cals) = 1 /\ DOMAIN cals[1] \in {{"Int"}, {"None"}}

\* the lists of entries: up to MaxCalendars well-typed ones, or one that is
\* not after fewer
CalendarLists ==
    SeqsUpTo(CalendarEntries, MaxCalendars)
    \cup {Append(cs, c) : cs \in SeqsUpTo(CalendarEntries, MaxCalendars - 1),
                          c \in IllTypedEntries}

\* the values of 'timezone': "", null, 0, 5, a zone, no zone
TimezoneValues ==
    { << >>, None, IntValue(0), IntValue(5),
      <<65, 115, 105, 97, 47, 84, 111, 107, 121, 111>>,
      <<77, 97, 114, 115, 47, 80, 104, 111, 98, 111, 115>> }

\* the mappings of the file: every list of entries and every other value of
\* 'calendars' without 'timezone'; every value of 'timezone' with a list of
\* at most one entry or with "calendars:"
Configs ==
    {[calendars |-> cs] :
        cs \in CalendarLists \cup {IntCalendars(5), IntCalendars(0), NoneCalendars}}
    \cup {[timezone |-> t, calendars |-> cs] :
             t \in TimezoneValues,
             cs \in SeqsUpTo(CalendarEntries, 1) \cup {NoneCalendars}}
    \cup {[timezone |-> <<65, 115, 105, 97, 47, 84, 111, 107, 121, 111>>]}

\* what yaml.safe_load returns for an empty file, None, and for the document
\* "5", an int.  They are records, like the mappings they are compared with,
\* whose one key no mapping has.
NoneDict == [None |-> TRUE]

IntDocument == [Int |-> 5]

IsNone(cfg) == DOMAIN cfg = {"None"}

\* 'timezone' in config raises TypeError
InRaises(cfg) == DOMAIN cfg \in {{"None"}, {"Int"}}

\* the states of the file at args.config: absent; not readable as text (a
\* directory, no permission, bytes that are not UTF-8); not YAML; empty; an
\* int; the word "agenda"; the word "timezones"; a mapping
ConfigFiles ==
    {[kind |-> "missing"], [kind |-> "unreadable"], [kind |-> "yaml_error"]}
    \cup {[kind |-> "ok", content |-> c] :
             c \in {NoneDict, IntDocument,
                    StrValue(<<97, 103, 101, 110, 100, 97>>),
                    StrValue(<<116, 105, 109, 101, 122, 111, 110, 101, 115>>)}}
    \cup {[kind |-> "ok", content |-> c] : c \in Configs}

DateArgs ==
    { None,
      <<65298, 65296, 65298, 65300, 45, 51, 45, 32, 49>>,   \* "2024-3- 1", year in fullwidth digits
      <<48, 57, 57, 57, 45, 48, 49, 45, 48, 49>>,     \* "0999-01-01"
      <<50, 48, 50, 52, 45, 48, 50, 45, 50, 57>>,     \* "2024-02-29"
      <<50, 48, 50, 52, 45, 48, 50, 45, 51, 48>>,     \* "2024-02-30"
      <<116, 111, 109, 111, 114, 114, 111, 119>> }          \* "tomorrow"

Hosts ==
    [file : ConfigFiles,
     localzone : {"raise", "America/Phoenix"},
     clock : {Instant(D1, 1200, 0)}]                    \* 2024-02-29 20:00Z

---------------------------------------------------------------------------
(* main(): one action per statement group between two inputs.               *)

Init ==
    /\ pc = "load_config"
    /\ args \in [config : {"calendars.yaml"}, date : DateArgs]
    /\ env \in Hosts
    /\ config = << >>
    /\ tz = [key |-> "unbound", utcoffset |-> 0]
    /\ target_date = Date(0, 0, 0)
    /\ header = << >>
    /\ calendars = << >>
    /\ idx = 0
    /\ name = None
    /\ url = None
    /\ show_description = FALSE
    /\ show_location = FALSE
    /\ ics_content = NoContent
    /\ timed_events = << >>
    /\ all_day_tasks = << >>
    /\ output_lines = << >>
    /\ stdout = << >>
    /\ diagnostics = << >>
    /\ exit_code = -1
    /\ visited = << >>

\* print(message); sys.exit(1)
Exit(message) ==
    /\ diagnostics' = Append(diagnostics, message)
    /\ exit_code' = 1
    /\ pc' = "exit"

\* an exception nothing catches: traceback on stderr, exit status 1
Crash ==
    /\ exit_code' = 1
    /\ pc' = "exit"
    /\ UNCHANGED diagnostics

loopvars == <<idx, name, url, show_description, show_location, ics_content,
              timed_events, all_day_tasks, visited>>

\* config = load_config(args.config)
LoadConfig ==
    /\ pc = "load_config"
    /\ IF env.file.kind = "missing"
       THEN Exit("config_not_found") /\ UNCHANGED config
       ELSE IF env.file.kind = "unreadable"
       THEN Crash /\ UNCHANGED config
       ELSE IF env.file.kind = "yaml_error"
       THEN Exit("yaml_error") /\ UNCHANGED config
       ELSE /\ config' = env.file.content
            /\ pc' = "timezone"
            /\ UNCHANGED <<diagnostics, exit_code>>
    /\ UNCHANGED <<args, env, tz, target_date, header, calendars, output_lines,
                   stdout, loopvars>>

\* 'timezone' in config, for a mapping (a key) or a str (a substring)
HasTimezone(cfg) ==
    IF IsNotMapping(cfg) THEN Contains(cfg.Scalar, <<116, 105, 109, 101, 122, 111, 110, 101>>)
    ELSE "timezone" \in DOMAIN cfg

\* config['timezone'] raises TypeError: a str takes no str index
IndexRaises(cfg) == IsNotMapping(cfg)

\* 'timezone' in config and config['timezone'], for a mapping
TimezoneConfigured(cfg) == HasTimezone(cfg) /\ Truthy(cfg.timezone)

\* "Determine timezone"
ResolveTimezone ==
    /\ pc = "timezone"
    /\ IF InRaises(config)
       THEN Crash /\ UNCHANGED tz
       ELSE IF HasTimezone(config) /\ IndexRaises(config)
       THEN Crash /\ UNCHANGED tz
       ELSE IF TimezoneConfigured(config)
       THEN IF ZoneInfoFails(config.timezone)
            THEN Exit("invalid_timezone") /\ UNCHANGED tz
            ELSE /\ tz' = ZoneInfo(config.timezone)
                 /\ pc' = "target_date"
                 /\ UNCHANGED <<diagnostics, exit_code>>
       ELSE IF env.localzone = "raise" \/ ZoneInfoFails(LocalZoneName(env.localzone))
            THEN /\ diagnostics' = Append(diagnostics, "local_timezone_error")
                 /\ tz' = UTC
                 /\ pc' = "target_date"
                 /\ UNCHANGED exit_code
            ELSE /\ tz' = ZoneInfo(LocalZoneName(env.localzone))
                 /\ pc' = "target_date"
                 /\ UNCHANGED <<diagnostics, exit_code>>
    /\ UNCHANGED <<args, env, config, target_date, header, calendars, output_lines,
                   stdout, loopvars>>

\* "Determine target date" and "Prepare the header"
DetermineTargetDate ==
    /\ pc = "target_date"
    /\ IF Truthy(args.date) /\ StrptimeFails(args.date)
       THEN Exit("invalid_date") /\ UNCHANGED <<target_date, header>>
       ELSE /\ target_date' = IF Truthy(args.date) THEN Strptime(args.date)
                              ELSE To(env.clock, tz).date
            /\ header' = format_header(target_date')
            /\ pc' = "calendars"
            /\ UNCHANGED <<diagnostics, exit_code>>
    /\ UNCHANGED <<args, env, config, tz, calendars, output_lines, stdout, loopvars>>

\* the empty-list test left out
NoCalendarsNever(cals) == FALSE

\* not calendars: an empty list, None or 0
NoCalendars(cals) ==
    \/ cals = << >>
    \/ Len(cals) = 1 /\ DOMAIN cals[1] = {"None"}
    \/ Len(cals) = 1 /\ DOMAIN cals[1] = {"Int"} /\ cals[1].Int = 0

\* calendars = config.get('calendars', []) up to output_lines = [header, ""]
PrepareReport ==
    /\ pc = "calendars"
    /\ IF IsNotMapping(config)
       THEN Crash /\ UNCHANGED <<calendars, output_lines>>   \* str has no get
       ELSE /\ calendars' = Get(config, "calendars", << >>)
            /\ IF NoCalendars(calendars')
               THEN Exit("no_calendars") /\ UNCHANGED output_lines
               ELSE /\ output_lines' = <<header, << >> >>
                    /\ pc' = "loop"
                    /\ UNCHANGED <<diagnostics, exit_code>>
    /\ UNCHANGED <<args, env, config, tz, target_date, header, stdout, loopvars>>

\* not name or not url
MissingField(n, u) == ~Truthy(n) \/ ~Truthy(u)

\* not ics_content
NotContent(content) == content.text \in {"None", "empty"}

\* what one iteration met: the text fetched (NoContent when nothing was
\* fetched) and how many items parse_events returned
Visit(outcome, content, timed, all_day) ==
    [outcome |-> outcome, content |-> content,
     timed |-> Len(timed), all_day |-> Len(all_day)]

\* the iteration goes on to the next entry
Continue ==
    /\ pc' = pc
    /\ exit_code' = exit_code

\* one iteration of "for cal in calendars"
ProcessCalendar ==
    /\ pc = "loop"
    /\ idx < Len(calendars)
    /\ IF IsNotIterable(calendars)
       THEN Crash /\ UNCHANGED <<loopvars, output_lines>>     \* not iterable: TypeError
       ELSE
       LET cal == calendars[idx + 1]
       IN
       /\ idx' = idx + 1
       /\ IF IsNotMapping(cal)
          THEN /\ Crash                                      \* str has no get
               /\ visited' = Append(visited, Visit("raised", NoContent, << >>, << >>))
               /\ UNCHANGED <<name, url, show_description, show_location,
                              ics_content, timed_events, all_day_tasks, output_lines>>
          ELSE
          LET n   == Get(cal, "name", None)
              u   == Get(cal, "url", None)
              sd  == Get(cal, "show_description", FALSE)
              sl  == Get(cal, "show_location", FALSE)
          IN
          /\ name' = n
          /\ url' = u
          /\ show_description' = sd
          /\ show_location' = sl
          /\ IF MissingField(n, u)
             THEN /\ diagnostics' = Append(diagnostics, "skipping_entry")
                  /\ visited' = Append(visited, Visit("skipped", NoContent, << >>, << >>))
                  /\ Continue
                  /\ UNCHANGED <<ics_content, timed_events, all_day_tasks,
                                 output_lines>>
             ELSE
             \E response \in Responses :
             /\ ics_content' = response
             /\ IF NotContent(response)
                THEN /\ diagnostics' =
                          IF response.text = "None"
                          THEN Append(diagnostics, "fetch_error")
                          ELSE diagnostics
                     /\ visited' = Append(visited,
                                          Visit("no_content", response, << >>, << >>))
                     /\ Continue
                     /\ UNCHANGED <<timed_events, all_day_tasks, output_lines>>
                ELSE
                LET parsed == parse_events(response, target_date, tz)
                IN
                IF parsed.raised
                THEN /\ Crash                               \* None has no date
                     /\ visited' = Append(visited,
                                          Visit("raised", response, << >>, << >>))
                     /\ UNCHANGED <<timed_events, all_day_tasks, output_lines>>
                ELSE
                /\ timed_events' = parsed.timed
                /\ all_day_tasks' = parsed.all_day
                /\ IF ~has_events(parsed.timed, parsed.all_day)
                   THEN /\ diagnostics' =
                             IF response.wellformed THEN diagnostics
                             ELSE Append(diagnostics, "parse_error")
                        /\ visited' = Append(visited,
                               Visit("parsed", response, parsed.timed, parsed.all_day))
                        /\ Continue
                        /\ UNCHANGED output_lines
                   ELSE IF LenRaises(n)
                   THEN /\ output_lines' = Append(output_lines, NameLine(n))
                        /\ Crash                            \* len(int): TypeError
                        /\ visited' = Append(visited,
                               Visit("raised", response, parsed.timed, parsed.all_day))
                   ELSE /\ output_lines' =
                             output_lines \o SourceBlock(n, parsed.timed,
                                                         parsed.all_day, sd, sl)
                        /\ diagnostics' =
                             IF response.wellformed THEN diagnostics
                             ELSE Append(diagnostics, "parse_error")
                        /\ visited' = Append(visited,
                               Visit("parsed", response, parsed.timed, parsed.all_day))
                        /\ Continue
    /\ UNCHANGED <<args, env, config, tz, target_date, header, calendars, stdout>>

\* "Print the final output", after the loop has consumed every entry
PrintOutput ==
    /\ pc = "loop"
    /\ idx = Len(calendars)
    /\ stdout' = IF output_lines # << >> THEN stdout \o PrintAll(output_lines)
                 ELSE Append(stdout, NoEventsLine(target_date))
    /\ exit_code' = 0
    /\ pc' = "done"
    /\ UNCHANGED <<args, env, config, tz, target_date, header, calendars,
                   output_lines, diagnostics, loopvars>>

Next ==
    \/ LoadConfig
    \/ ResolveTimezone
    \/ DetermineTargetDate
    \/ PrepareReport
    \/ ProcessCalendar
    \/ PrintOutput

Spec == Init /\ [][Next]_vars

---------------------------------------------------------------------------
(* One calendar, seen statement by statement: main() at line 171 with the  *)
(* feed fetched, for every feed of Feeds, every zone, every date argument   *)
(* and every pair of flags; then the rest of the iteration and the print.   *)

\* the one entry of the configuration: "Work" with its flags, "Me", or an
\* entry whose name is no str
ParseEntries ==
    {[name |-> <<87, 111, 114, 107>>, url |-> <<117>>,
      show_description |-> sd, show_location |-> sl] : sd, sl \in BOOLEAN}
    \cup {CalMe, Cal2024, CalNeg, CalList, CalDict}

\* the states of main() when line 171 is about to run in the first iteration
InitParse ==
    \E zone \in ZoneTable, cal \in ParseEntries :
        LET cfg == IF zone.key = "Asia/Tokyo"
                   THEN [timezone |-> zone.name, calendars |-> <<cal>>]
                   ELSE [calendars |-> <<cal>>]
        IN  /\ pc = "parse_events"
            /\ args \in {a \in [config : {"calendars.yaml"}, date : DateArgs] :
                            /\ Truthy(a.date) /\ ~StrptimeFails(a.date)
                            /\ Strptime(a.date) \in {D1, D2}}
            /\ env = [file |-> [kind |-> "ok", content |-> cfg],
                      localzone |-> IF zone.key = "America/Phoenix" THEN zone.key
                                    ELSE "raise",
                      clock |-> Instant(D1, 1200, 0)]
            /\ config = cfg
            /\ tz = zone
            /\ target_date = Strptime(args.date)
            /\ header = format_header(target_date)
            /\ calendars = <<cal>>
            /\ idx = 1
            /\ name = cal.name
            /\ url = cal.url
            /\ show_description = Get(cal, "show_description", FALSE)
            /\ show_location = Get(cal, "show_location", FALSE)
            /\ ics_content \in Feeds \cup {Malformed}
            /\ timed_events = << >>
            /\ all_day_tasks = << >>
            /\ output_lines = <<header, << >> >>
            /\ stdout = << >>
            /\ diagnostics = IF zone = UTC THEN <<"local_timezone_error">> ELSE << >>
            /\ exit_code = -1
            /\ visited = << >>

\* timed_events, all_day_tasks = parse_events(ics_content, target_date, tz)
CallParseEvents ==
    /\ pc = "parse_events"
    /\ LET parsed == parse_events(ics_content, target_date, tz)
       IN  IF parsed.raised
           THEN /\ Crash                                    \* None has no date
                /\ visited' = Append(visited, Visit("raised", ics_content, << >>, << >>))
                /\ UNCHANGED <<timed_events, all_day_tasks>>
           ELSE /\ timed_events' = parsed.timed
                /\ all_day_tasks' = parsed.all_day
                /\ diagnostics' = IF ics_content.wellformed THEN diagnostics
                                  ELSE Append(diagnostics, "parse_error")
                /\ pc' = "emit"
                /\ UNCHANGED <<exit_code, visited>>
    /\ UNCHANGED <<args, env, config, tz, target_date, header, calendars, idx, name,
                   url, show_description, show_location, ics_content, output_lines,
                   stdout>>

\* lines 173-196: the rest of the iteration
EmitBlock ==
    /\ pc = "emit"
    /\ IF ~has_events(timed_events, all_day_tasks)
       THEN /\ visited' = Append(visited, Visit("parsed", ics_content, timed_events,
                                               all_day_tasks))
            /\ pc' = "loop"
            /\ UNCHANGED <<output_lines, diagnostics, exit_code>>
       ELSE IF LenRaises(name)
       THEN /\ output_lines' = Append(output_lines, NameLine(name))
            /\ Crash                                        \* len(int): TypeError
            /\ visited' = Append(visited, Visit("raised", ics_content, timed_events,
                                               all_day_tasks))
       ELSE /\ output_lines' =
                 output_lines \o SourceBlock(name, timed_events, all_day_tasks,
                                             show_description, show_location)
            /\ visited' = Append(visited, Visit("parsed", ics_content, timed_events,
                                               all_day_tasks))
            /\ pc' = "loop"
            /\ UNCHANGED <<diagnostics, exit_code>>
    /\ UNCHANGED <<args, env, config, tz, target_date, header, calendars, idx, name,
                   url, show_description, show_location, ics_content, timed_events,
                   all_day_tasks, stdout>>

NextParse == CallParseEvents \/ EmitBlock \/ PrintOutput

SpecParse == InitParse /\ [][NextParse]_vars

---------------------------------------------------------------------------
(* Vocabulary of the properties.                                            *)

StartsWith(s, prefix) ==
    Len(s) >= Len(prefix) /\ SubSeq(s, 1, Len(prefix)) = prefix

\* x is absent, empty or whitespace only
Blank(x) == x = None \/ \A i \in 1..Len(x) : IsSpace(x[i])

ItemPrefix == <<32, 32, 9744, 32>>                                   \* "  [ ] "
DescriptionPrefix ==
    <<32, 32, 32, 32, 68, 101, 115, 99, 114, 105, 112, 116, 105, 111, 110, 58, 32>>

\* "  [ ] HH:MM - ..."
IsTimedLine(s) ==
    /\ StartsWith(s, ItemPrefix)
    /\ Len(s) >= 12
    /\ IsDigit(s[5]) /\ IsDigit(s[6]) /\ s[7] = 58 /\ IsDigit(s[8]) /\ IsDigit(s[9])
    /\ SubSeq(s, 10, 12) = <<32, 45, 32>>

\* "  [ ] name" of an all-day task
IsTaskLine(s) == StartsWith(s, ItemPrefix) /\ ~IsTimedLine(s)

FirstLine(s) == SplitLines(s, << >>)[1]

\* the feed's events whose own start date is the target date, in feed order
OnDate(events) == SelectSeq(events, LAMBDA e : e.begin.date = target_date)

\* the calendar names heading the blocks of a list of output strings
BlockNames(lines) ==
    LET heads == SelectSeq(lines, LAMBDA l : l # << >> /\ l[1] # 32 /\ l[Len(l)] = 58)
    IN  [i \in 1..Len(heads) |-> SubSeq(heads[i], 1, Len(heads[i]) - 1)]

\* entry i of the configuration lacks a name or a url
LacksField(i) ==
    /\ ~IsNotMapping(calendars[i])
    /\ \/ "name" \notin DOMAIN calendars[i] \/ calendars[i].name \in {None, << >>}
       \/ "url" \notin DOMAIN calendars[i] \/ calendars[i].url \in {None, << >>}

\* iteration i failed: missing field, fetch failure or parse failure
Failing(i) ==
    \/ LacksField(i)
    \/ ~IsNotMapping(calendars[i]) /\ visited[i].content.text # "ics"
    \/ ~IsNotMapping(calendars[i]) /\ ~visited[i].content.wellformed

\* iteration i found items of the target date
HasItems(i) == visited[i].timed + visited[i].all_day > 0

\* the iterations done so far that must have produced a block, in order
Producing == SelectSeq([i \in 1..Len(visited) |-> i],
                       LAMBDA i : ~Failing(i) /\ HasItems(i))

---------------------------------------------------------------------------
(* Properties of parse_events (checked under SpecParse).                    *)

\* C1: parse_events keeps a timed event exactly when the date of its start,
\* converted into the resolved timezone, is the target date, and an all-day
\* event exactly when its own date is the target date; the kept events are
\* split between the timed list and the all-day list.
C1_KeepsByConvertedDate ==
    (pc \in {"emit", "loop", "done"} /\ ics_content.wellformed) =>
        LET events == ics_content.events
            timed == SelectSeq(events, LAMBDA e :
                         ~e.all_day /\ To(e.begin, tz).date = target_date)
            tasks == SelectSeq(events, LAMBDA e :
                         e.all_day /\ e.begin.date = target_date)
        IN  /\ Len(timed_events) = Len(timed)
            /\ \A i \in 1..Len(timed) :
                   timed_events[i].time = StrfHM(To(timed[i].begin, tz))
            /\ Len(all_day_tasks) = Len(tasks)

\* the name the record of an event is to carry
NameOrPlaceholder(e) == IF Blank(e.name) THEN NoTitle ELSE strip(e.name)

\* C7: every kept record carries the trimmed feed name, or "No Title" when the
\* feed name is absent, empty or blank; no kept record has an empty name.
C7_NameOrNoTitle ==
    (pc \in {"emit", "loop", "done"} /\ ics_content.wellformed) =>
        LET kept  == OnDate(ics_content.events)
            timed == SelectSeq(kept, LAMBDA e : ~e.all_day)
            tasks == SelectSeq(kept, LAMBDA e : e.all_day)
        IN  /\ Len(timed_events) = Len(timed)
            /\ Len(all_day_tasks) = Len(tasks)
            /\ \A i \in 1..Len(timed) :
                   /\ timed_events[i].name = NameOrPlaceholder(timed[i])
                   /\ timed_events[i].name # << >>
            /\ \A i \in 1..Len(tasks) :
                   /\ all_day_tasks[i].name = NameOrPlaceholder(tasks[i])
                   /\ all_day_tasks[i].name # << >>

---------------------------------------------------------------------------
(* Properties of the whole run (checked under Spec).                        *)

\* C2: when the loop ends and no source produced a block, the printed output
\* is exactly the one "No events or tasks found for <date>." line, without
\* the header title and underline.
C2_OnlyNoEventsLine ==
    (pc = "done" /\ BlockNames(output_lines) = << >>) =>
        stdout = <<NoEventsLine(target_date)>>

\* C9: a report with a block starts with the title line, an underline of '='
\* as long as the title, exactly one blank line, and then at once the name
\* line of the first block.
C9_HeaderThenFirstBlock ==
    (pc = "done" /\ BlockNames(output_lines) # << >>) =>
        /\ Len(stdout) >= 4
        /\ stdout[1] = <<65, 103, 101, 110, 100, 97, 32, 102, 111, 114, 32>>
                       \o StrfBdY(target_date)
        /\ stdout[2] = Repeat(61, Len(stdout[1]))
        /\ stdout[3] = << >>
        /\ stdout[4] = BlockNames(output_lines)[1] \o <<58>>

\* the run has passed the statement group 'stage' without exiting
Past(stage) ==
    CASE stage = "load_config" -> pc \in {"timezone", "target_date", "calendars", "loop", "done"}
      [] stage = "timezone"    -> pc \in {"target_date", "calendars", "loop", "done"}
      [] stage = "target_date" -> pc \in {"calendars", "loop", "done"}
      [] stage = "calendars"   -> pc \in {"loop", "done"}

\* C3: no source ends the run: a run in which the feed of a source was
\* fetched does not exit, whatever the source and its feed hold; a source
\* that fails
\* (missing name or url, fetch failure, parse failure) adds no block; the
\* sources with items of the date get their blocks in configuration order;
\* each entry is visited once; the run ends by printing the report with exit
\* status 0.
C3_FailuresAreSkipped ==
    /\ pc = "exit" => \A i \in 1..Len(visited) : visited[i].content.text # "ics"
    /\ pc \in {"loop", "done"} =>
          /\ Len(visited) = idx
          /\ idx <= Len(calendars)
          /\ BlockNames(output_lines)
               = [k \in 1..Len(Producing) |-> Format(calendars[Producing[k]].name)]
    /\ pc = "done" =>
          /\ idx = Len(calendars)
          /\ exit_code = 0
          /\ stdout = PrintAll(output_lines)

\* C5: a source whose feed has no timed event and no all-day task on the
\* target date leaves output_lines as it was: no name line, no underline, no
\* blank line.
C5_EmptySourceAddsNothing ==
    [][ ( /\ pc = "loop"
          /\ idx' = idx + 1
          /\ visited'[idx'].content.text = "ics"
          /\ timed_events' = << >>
          /\ all_day_tasks' = << >> )
        => output_lines' = output_lines ]_vars

\* the loop has just passed a well-formed feed with events, none on the date,
\* after an earlier source produced a block
C5_Witness ==
    /\ pc = "loop"
    /\ idx > 1
    /\ visited[idx].content.wellformed
    /\ visited[idx].content.events # << >>
    /\ visited[idx].timed = 0 /\ visited[idx].all_day = 0
    /\ BlockNames(output_lines) # << >>

\* the configuration file is missing or cannot be read or parsed as a mapping
BadConfigFile ==
    \/ env.file.kind # "ok"
    \/ DOMAIN env.file.content \in {{"None"}, {"Int"}, {"Scalar"}}

\* the configuration names a timezone and the host knows no zone of that name
BadTimezone ==
    /\ ~BadConfigFile
    /\ "timezone" \in DOMAIN env.file.content
    /\ env.file.content.timezone \notin {<< >>, None, IntValue(0)}
    /\ env.file.content.timezone \notin {z.name : z \in ZoneTable}

\* the date argument is given and is no date in the form YYYY-MM-DD
BadDateArg == Truthy(args.date) /\ StrptimeFails(args.date)

\* the configuration lists no calendar: no 'calendars' key, an empty list,
\* null or 0
EmptyCalendars ==
    /\ ~BadConfigFile
    /\ ("calendars" \notin DOMAIN env.file.content
        \/ env.file.content.calendars \in {<< >>, NoneCalendars, IntCalendars(0)})

\* the configuration names no timezone: no key, "", null or 0
NoTimezoneNamed ==
    /\ ~BadConfigFile
    /\ ("timezone" \notin DOMAIN env.file.content
        \/ env.file.content.timezone \in {<< >>, None, IntValue(0)})

\* C8: a missing or unparseable configuration file, an unrecognized configured
\* timezone, an invalid date argument and an empty calendar list each end the
\* run with a non-zero exit before any fetch and before any report line; a
\* failed detection of the local timezone does not, and leaves UTC resolved.
C8_FatalBeforeReport ==
    /\ pc = "exit" => (exit_code # 0 /\ exit_code # -1 /\ stdout = << >>)
    /\ (pc = "exit" /\ output_lines = << >>) =>
          /\ visited = << >> /\ idx = 0
          /\ BadConfigFile \/ BadTimezone \/ BadDateArg \/ EmptyCalendars
    /\ (pc = "exit" /\ output_lines # << >>) =>
          ~(BadConfigFile \/ BadTimezone \/ BadDateArg \/ EmptyCalendars)
    /\ Past("load_config") => env.file.kind \notin {"missing", "unreadable", "yaml_error"}
    /\ Past("timezone") =>
          /\ env.file.content \notin {NoneDict, IntDocument,
                                      StrValue(<<116, 105, 109, 101, 122, 111, 110, 101, 115>>)}
          /\ ~BadTimezone
    /\ Past("target_date") => ~BadDateArg
    /\ Past("calendars") => ~BadConfigFile /\ ~EmptyCalendars
    /\ (Past("timezone") /\ NoTimezoneNamed /\ env.localzone = "raise") =>
          (tz = UTC /\ diagnostics # << >>
                    /\ diagnostics[1] = "local_timezone_error")
    /\ (Past("timezone") /\ ~BadConfigFile /\ ~NoTimezoneNamed) =>
          tz.name = env.file.content.timezone

\* the configuration has "timezone:" and "calendars:" both null, the local
\* zone could not be detected, the run went on under UTC and then stopped at
\* the calendars
C8_Witness ==
    /\ pc = "exit"
    /\ env.localzone = "raise"
    /\ env.file.kind = "ok"
    /\ DOMAIN env.file.content = {"timezone", "calendars"}
    /\ env.file.content.timezone = None
    /\ env.file.content.calendars = NoneCalendars
    /\ tz = UTC
    /\ diagnostics = <<"local_timezone_error", "no_calendars">>

---------------------------------------------------------------------------
(* Properties of one calendar's block (checked under SpecParse).            *)

\* the rendered items of a block: one string of one to three lines per item
Items(lines) == SelectSeq(lines, LAMBDA l : StartsWith(l, ItemPrefix))

\* C4: in a block the timed events are in non-decreasing order of their HH:MM
\* string and the all-day tasks in non-decreasing order of their name, by
\* code point, whatever the order of the feed.
C4_BlockIsSorted ==
    pc \in {"loop", "done"} =>
        LET timed == SelectSeq(Items(output_lines), LAMBDA l : IsTimedLine(FirstLine(l)))
            tasks == SelectSeq(Items(output_lines), LAMBDA l : IsTaskLine(FirstLine(l)))
            TimeOf(l) == SubSeq(l, 5, 9)
            NameOf(l) == SubSeq(FirstLine(l), 5, Len(FirstLine(l)))
        IN  /\ Len(timed) = Len(timed_events)
            /\ Len(tasks) = Len(all_day_tasks)
            /\ \A i, j \in 1..Len(timed) :
                   i < j => ~StrLess(TimeOf(timed[j]), TimeOf(timed[i]))
            /\ \A i, j \in 1..Len(tasks) :
                   i < j => ~StrLess(NameOf(tasks[j]), NameOf(tasks[i]))

\* a block was emitted for a feed that lists a later timed event before an
\* earlier one, together with an all-day task
C4_Witness ==
    /\ pc = "done"
    /\ all_day_tasks # << >>
    /\ \E i, j \in 1..Len(timed_events) :
          i < j /\ StrLess(timed_events[j].time, timed_events[i].time)

\* C6: the output of a block has a "Description:" line for an event exactly
\* when show_description is true and the event's description is not blank
\* after trimming.
C6_DescriptionLine ==
    (pc = "done" /\ ics_content.wellformed) =>
        LET kept == OnDate(ics_content.events)
            described == SelectSeq(kept, LAMBDA e : ~Blank(e.description))
            shown == SelectSeq(stdout, LAMBDA l : StartsWith(l, DescriptionPrefix))
        IN  /\ Len(shown) = IF show_description THEN Len(described) ELSE 0
            /\ \A k \in 1..Len(shown) :
                   \E i \in 1..Len(described) :
                       shown[k] = DescriptionPrefix \o strip(described[i].description)

\* show_description is on, one kept event has a whitespace-only description
\* and another a real one, and the block was printed
C6_Witness ==
    /\ pc = "done"
    /\ show_description
    /\ \E i \in 1..Len(OnDate(ics_content.events)) :
          LET e == OnDate(ics_content.events)[i]
          IN  e.description # None /\ Blank(e.description)
    /\ \E k \in 1..Len(stdout) : StartsWith(stdout[k], DescriptionPrefix)

\* C10: a block (the strings after the header and "") is the line "<name>:",
\* a '-' underline as long as the name (the characters of a str, the items of
\* a list or dict), the timed events, one blank string exactly when both
\* categories are non-empty, the all-day tasks, and one blank string; no task
\* precedes a timed event.
C10_BlockLayout ==
    (pc \in {"loop", "done"} /\ (timed_events # << >> \/ all_day_tasks # << >>)) =>
        LET b   == SubSeq(output_lines, 3, Len(output_lines))
            nt  == Len(timed_events)
            na  == Len(all_day_tasks)
            sep == IF nt > 0 /\ na > 0 THEN 1 ELSE 0
        IN  /\ Len(b) = 2 + nt + sep + na + 1
            /\ name = calendars[1].name
            /\ (~IsList(name) /\ ~IsDict(name)) =>
                   (b[1] = name \o <<58>> /\ Len(b[2]) = Len(name))
            /\ IsList(name) =>
                   /\ b[1] = <<91, 34, 105, 116, 39, 115, 34, 44, 32, 39, 98, 39, 93, 58>>
                              \* ["it's", 'b']:
                   /\ Len(b[2]) = 2
            /\ IsDict(name) =>
                   /\ b[1] = <<123, 39, 97, 39, 58, 32, 39, 92, 117, 51, 48, 48, 48, 92, 92, 39, 125, 58>>
                              \* {'a': '\u3000\\'}:
                   /\ Len(b[2]) = 1
            /\ \A k \in 1..Len(b[2]) : b[2][k] = 45
            /\ \A i \in 1..nt : IsTimedLine(FirstLine(b[2 + i]))
            /\ sep = 1 => b[3 + nt] = << >>
            /\ \A i \in 1..na : IsTaskLine(FirstLine(b[2 + nt + sep + i]))
            /\ b[Len(b)] = << >>

\* a block with both timed events and all-day tasks was emitted under a name
\* that is a list
C10_Witness ==
    /\ pc = "done"
    /\ IsList(name)
    /\ timed_events # << >>
    /\ all_day_tasks # << >>
    /\ Len(timed_events) + Len(all_day_tasks) >= 3

=============================================================================
